---- MODULE Spec2Model ----
(***************************************************************************)
(* Sales pipeline dashboard (app.py): a Streamlit script that is rerun     *)
(* from top to bottom on every widget interaction.  The model keeps the    *)
(* session state (seed), the widget values, the memo table of gen_data,    *)
(* the wall clock, and the tables computed by the last run of the script.  *)
(*                                                                         *)
(* Time is counted in clock ticks, TicksPerDay ticks to a calendar day;    *)
(* a date is a day number, and day 0 is a Monday.  Floating point results  *)
(* (means, the median, the win rate) are kept as exact fractions           *)
(* [num, den].  Deal counts are scaled down: the slider positions          *)
(* 100..2000 are modelled by 1..MaxDeals rows.                             *)
(***************************************************************************)
EXTENDS Integers, Sequences, FiniteSets

\* ---------------------------------------------------------------- bounds
MaxDeals == 2        \* largest position of the "Number of deals" slider
MaxTick == 1         \* clock ticks the wall clock may advance
TicksPerDay == 2     \* resolution of datetime.now() within one day
ExpSupport == 64     \* int(np.random.exponential(15)) is drawn from 0..ExpSupport-1

\* ------------------------------------------------------- program constants
all_reps == <<"Alice", "Bob", "Carol", "David">>
all_stages == <<"Prospecting", "Qualification", "Proposal",
                "Negotiation", "Closed Won", "Closed Lost">>
DealColumns == {"rep", "stage", "time_in_stage", "created", "updated", "value", "status"}
InitialSeed == 42
RandintLo == 0
RandintHi == 1000000
CreatedSpan == 90
DefaultRangeDays == 90
ValueLo == 1000
ValueHi == 20000
ThMin == 10
ThDefault == 30
ThMax == 60
DaysPerWeek == 7

Range(s) == {s[i] : i \in 1..Len(s)}
Max2(a, b) == IF a >= b THEN a ELSE b

\* ------------------------------------------------- numpy's random stream
\* np.random.seed(seed) fixes the whole stream; the generator is modelled by
\* a linear congruential one: what matters is that every draw is a function
\* of the seed and of the number of draws made before it.
RngMod == 65537
RngMul == 1246
RngInc == 74
SeedRng(seed) == seed % RngMod
NextRng(s) == (s * RngMul + RngInc) % RngMod

\* np.random.choice(all_reps): uniform over the roster
ChoiceRep(s) == all_reps[(s % Len(all_reps)) + 1]
\* np.random.choice(all_stages, p=[0.2]*4 + [0.1,0.1]): tenths of the unit interval
ChoiceStage(s) ==
    LET u == s % 10
    IN  IF u < 8 THEN all_stages[(u \div 2) + 1] ELSE all_stages[u - 3]
\* int(np.random.exponential(15))
ExpDays(s) == s % ExpSupport
\* np.random.randint(0, 90): the upper end is exclusive
RandDaysAgo(s) == s % CreatedSpan
\* float(np.round(np.random.uniform(1_000, 20_000), 0))
UniformValue(s) == ValueLo + (s % (ValueHi - ValueLo + 1))

\* timedelta(days=d) in ticks
Days(d) == d * TicksPerDay

\* (variant: the "Closed Lost" branch is missing)
StatusOfNoLost(stage) == IF stage = "Closed Won" THEN "Won" ELSE "Open"

StatusOf(stage) ==
    IF stage = "Closed Won" THEN "Won"
    ELSE IF stage = "Closed Lost" THEN "Lost"
    ELSE "Open"

\* One iteration of the loop of gen_data: five draws, in the order of the code.
GenRow(s0, clock) ==
    LET s1 == NextRng(s0)
        s2 == NextRng(s1)
        s3 == NextRng(s2)
        s4 == NextRng(s3)
        s5 == NextRng(s4)
        stage == ChoiceStage(s2)
        days == ExpDays(s3) + 1
        created == clock - Days(RandDaysAgo(s4))
    IN  [row |-> [rep |-> ChoiceRep(s1),
                  stage |-> stage,
                  time_in_stage |-> days,
                  created |-> created,
                  updated |-> created + Days(days),
                  value |-> UniformValue(s5),
                  status |-> StatusOf(stage)],
         rng |-> s5]

RECURSIVE GenRows(_, _, _)
GenRows(n, s, clock) ==
    IF n <= 0 THEN <<>>
    ELSE LET g == GenRow(s, clock)
         IN  <<g.row>> \o GenRows(n - 1, g.rng, clock)

\* pd.DataFrame(rows): the columns come from the keys of the rows, so a
\* frame built from no rows has no columns.
DataFrame(rows) ==
    [columns |-> IF rows = <<>> THEN {} ELSE DealColumns, rows |-> rows]

\* The body of gen_data.  datetime.now() is read for every row; the rows of one
\* call are taken to read the same tick.
gen_data(n, seed, clock) == DataFrame(GenRows(n, SeedRng(seed), clock))


\* ------------------------------------------------------ dataframe helpers
Col(rows, name) == [i \in 1..Len(rows) |-> rows[i][name]]

\* Series.value_counts(): one entry per value present, none for the others
ValueCounts(vals) ==
    [v \in Range(vals) |-> Cardinality({i \in 1..Len(vals) : vals[i] = v})]

RECURSIVE SumSeq(_)
SumSeq(s) == IF s = <<>> THEN 0 ELSE Head(s) + SumSeq(Tail(s))

Frac(n, d) == [num |-> n, den |-> d]
Zero == Frac(0, 1)

\* Series.mean() of a non-empty series
Mean(vals) == Frac(SumSeq(vals), Len(vals))

\* the k-th smallest element of a non-empty sequence of integers
KthSmallest(vals, k) ==
    CHOOSE v \in Range(vals) :
        /\ Cardinality({i \in 1..Len(vals) : vals[i] < v}) < k
        /\ Cardinality({i \in 1..Len(vals) : vals[i] <= v}) >= k

\* Series.median() of a non-empty series
Median(vals) ==
    LET n == Len(vals)
    IN  IF n % 2 = 1 THEN Frac(KthSmallest(vals, (n + 1) \div 2), 1)
        ELSE Frac(KthSmallest(vals, n \div 2) + KthSmallest(vals, (n \div 2) + 1), 2)

\* Series.reindex(index, fill_value=fill): one value per label of index, in
\* the order of index
Reindex(series, index, fill) ==
    [i \in 1..Len(index) |->
        IF index[i] \in DOMAIN series THEN series[index[i]] ELSE fill]

\* .dt.date of a timestamp
DateOf(t) == t \div TicksPerDay

\* resample("W"): weeks end on Sunday, and a date falls in the bin labelled
\* by the Sunday on or after it (day 0 is a Monday)
WeekEnd(d) == d - (d % DaysPerWeek) + (DaysPerWeek - 1)

\* ------------------------------------------------- Section 7: filter
\* Series.between(start, end) is inclusive on both sides
Between(d, lo, hi) == lo <= d /\ d <= hi

\* (variant: a positional slice slips into the filter and drops the first match)
FilterRowsDropFirst(rows, sd, ed, rp, sg) ==
    LET inRange(r) == Between(DateOf(r.created), sd, ed)
        chosen(r) == r.rep \in rp /\ r.stage \in sg
        kept == SelectSeq(SelectSeq(rows, inRange), chosen)
    IN  IF kept = <<>> THEN kept ELSE Tail(kept)

FilterRows(rows, sd, ed, rp, sg) ==
    LET inRange(r) == Between(DateOf(r.created), sd, ed)
        chosen(r) == r.rep \in rp /\ r.stage \in sg
    IN  SelectSeq(SelectSeq(rows, inRange), chosen)

\* lines 91-92 on a frame that has the deal columns
FilterDf(frame, sd, ed, rp, sg) ==
    [columns |-> frame.columns, rows |-> FilterRows(frame.rows, sd, ed, rp, sg)]

\* ------------------------------------------------- Section 8: KPI row
\* (variant: divides by len(df), without max(1, ...))
WinRateUnguarded(rows) ==
    LET won == Cardinality({i \in 1..Len(rows) : rows[i].status = "Won"})
    IN  Frac(won * 100, Len(rows))

WinRate(rows) ==
    LET won == Cardinality({i \in 1..Len(rows) : rows[i].status = "Won"})
    IN  Frac(won * 100, Max2(1, Len(rows)))

AvgVal(rows) == IF rows # <<>> THEN Mean(Col(rows, "value")) ELSE Zero

MedTime(rows) == IF rows # <<>> THEN Median(Col(rows, "time_in_stage")) ELSE Zero

\* ------------------------------------------------- Sections 9-13: tables
StatusCounts(rows) == ValueCounts(Col(rows, "status"))

IsOpen(r) == r.status = "Open"

\* (variant: value_counts without the reindex over all_stages)
FunnelDfNoReindex(rows) ==
    LET counts == ValueCounts(Col(SelectSeq(rows, IsOpen), "stage"))
        present(s) == s \in DOMAIN counts
        shown == SelectSeq(all_stages, present)
    IN  [i \in 1..Len(shown) |-> [stage |-> shown[i], count |-> counts[shown[i]]]]

FunnelDf(rows) ==
    LET counts == Reindex(ValueCounts(Col(SelectSeq(rows, IsOpen), "stage")), all_stages, 0)
    IN  [i \in 1..Len(all_stages) |-> [stage |-> all_stages[i], count |-> counts[i]]]

RepCounts(rows) == ValueCounts(Col(rows, "rep"))

\* groupby("stage")["time_in_stage"].mean(): one group per stage present
StageMeans(rows) ==
    [s \in Range(Col(rows, "stage")) |->
        LET ofStage(r) == r.stage = s
        IN  Mean(Col(SelectSeq(rows, ofStage), "time_in_stage"))]

AvgTime(rows) ==
    LET means == Reindex(StageMeans(rows), all_stages, Zero)
    IN  [i \in 1..Len(all_stages) |-> [stage |-> all_stages[i], avg_days |-> means[i]]]

\* set_index("created").resample("W")["rep"].count(): one bin per week from
\* the week of the earliest deal to the week of the latest one
WeeklyCounts(rows) ==
    IF rows = <<>> THEN <<>>
    ELSE LET weeks == {WeekEnd(DateOf(rows[i].created)) : i \in 1..Len(rows)}
             first == CHOOSE w \in weeks : \A v \in weeks : w <= v
             last == CHOOSE w \in weeks : \A v \in weeks : v <= w
             bins == ((last - first) \div DaysPerWeek) + 1
         IN  [k \in 1..bins |->
                LET w == first + (k - 1) * DaysPerWeek
                IN  [created |-> w,
                     deals |-> Cardinality({i \in 1..Len(rows) :
                                              WeekEnd(DateOf(rows[i].created)) = w})]]

\* ------------------------------------------------- Section 15: stalled deals
StalledColumns(r) ==
    [rep |-> r.rep, stage |-> r.stage, time_in_stage |-> r.time_in_stage,
     value |-> r.value, created |-> r.created, updated |-> r.updated]

\* (variant: the status test is missing)
StalledAnyStatus(rows, th) ==
    LET isLong(r) == r.time_in_stage > th
        kept == SelectSeq(rows, isLong)
    IN  [i \in 1..Len(kept) |-> StalledColumns(kept[i])]

Stalled(rows, th) ==
    LET isStalled(r) == r.status = "Open" /\ r.time_in_stage > th
        kept == SelectSeq(rows, isStalled)
    IN  [i \in 1..Len(kept) |-> StalledColumns(kept[i])]

\* ------------------------------------------------- Sections 7-15: one pass
\* df["created"] on a frame without that column raises KeyError, and the
\* script stops there: nothing below line 91 is computed (the tables are blank).
Blank ==
    [err |-> "KeyError", df |-> DataFrame(<<>>), total |-> 0,
     win_rate |-> Zero, avg_val |-> Zero, med_time |-> Zero,
     status_counts |-> <<>>, funnel_df |-> <<>>, rep_counts |-> <<>>,
     avg_time |-> <<>>, ts |-> <<>>, stalled |-> <<>>]

Pass(frame, sd, ed, rp, sg, th) ==
    IF "created" \notin frame.columns THEN Blank
    ELSE LET f == FilterDf(frame, sd, ed, rp, sg)
         IN  [err |-> "none", df |-> f, total |-> Len(f.rows),
              win_rate |-> WinRate(f.rows),
              avg_val |-> AvgVal(f.rows),
              med_time |-> MedTime(f.rows),
              status_counts |-> StatusCounts(f.rows),
              funnel_df |-> FunnelDf(f.rows),
              rep_counts |-> RepCounts(f.rows),
              avg_time |-> AvgTime(f.rows),
              ts |-> WeeklyCounts(f.rows),
              stalled |-> Stalled(f.rows, th)]

\* ---------------------------------------------------------------- state
VARIABLES
    now,            \* the wall clock, in ticks
    seed,           \* st.session_state.seed
    clicked,        \* what st.sidebar.button returned in the last run
    n_deals, start_date, end_date, reps, stages, stalled_th,   \* the widgets
    cache,          \* the memo of st.cache_data: <<n, seed>> -> frame
    raw,            \* what gen_data returned at line 90
    err,            \* "none", or the exception that stopped the last run
    df, total_deals, win_rate, avg_val, med_time, status_counts,
    funnel_df, rep_counts, avg_time, ts, stalled

widgets == <<n_deals, start_date, end_date, reps, stages, stalled_th>>
tables == <<err, df, total_deals, win_rate, avg_val, med_time, status_counts,
            funnel_df, rep_counts, avg_time, ts, stalled>>
vars == <<now, seed, clicked, widgets, cache, raw, tables>>

\* ------------------------------------------------- what the user can enter
Epoch == Days(CreatedSpan)
Today == DateOf(now)
\* The values a user enters in the session; every widget offers its default
\* and at least one other value (the slider: its lowest and highest position).
DealChoices == {1, MaxDeals}
DateChoices == {Today - DefaultRangeDays, Today}
RepChoices == {Range(all_reps), {all_reps[1], all_reps[2]}}
StageChoices == {Range(all_stages), {all_stages[i] : i \in 1..4}}
ThChoices == {ThDefault, ThMax}
\* random.randint(0, 1_000_000) is inclusive on both sides
RegenSeeds == {RandintLo, RandintHi}

\* ------------------------------------------------- Section 5: the seed
\* (variant: the seed is set to 42 on every run, not only when it is absent)
SessionSeedReset(present, cur, click, drawn) ==
    IF click THEN drawn ELSE InitialSeed

\* lines 51-55, in a session whose state holds cur (None before the first run)
SessionSeed(present, cur, click, drawn) ==
    LET kept == IF present THEN cur ELSE InitialSeed
    IN  IF click THEN drawn ELSE kept

\* ------------------------------------------------- Section 6: the memo
\* @st.cache_data: the body runs only for a key that is not in the memo
CachedGenData(memo, n, s, clock) ==
    IF <<n, s>> \in DOMAIN memo THEN memo[<<n, s>>] ELSE gen_data(n, s, clock)

Memoize(memo, n, s, frame) ==
    [k \in DOMAIN memo \cup {<<n, s>>} |-> IF k = <<n, s>> THEN frame ELSE memo[k]]

\* the tables of one pass, as the next values of the variables
SetTables(o) ==
    /\ err' = o.err
    /\ df' = o.df
    /\ total_deals' = o.total
    /\ win_rate' = o.win_rate
    /\ avg_val' = o.avg_val
    /\ med_time' = o.med_time
    /\ status_counts' = o.status_counts
    /\ funnel_df' = o.funnel_df
    /\ rep_counts' = o.rep_counts
    /\ avg_time' = o.avg_time
    /\ ts' = o.ts
    /\ stalled' = o.stalled

\* One run of the script, top to bottom, with the widgets at the given values.
Rerun(n, sd, ed, rp, sg, th, click, drawn) ==
    LET s == SessionSeed(TRUE, seed, click, drawn)
        frame == CachedGenData(cache, n, s, now)
    IN  /\ n_deals' = n
        /\ start_date' = sd
        /\ end_date' = ed
        /\ reps' = rp
        /\ stages' = sg
        /\ stalled_th' = th
        /\ clicked' = click
        /\ seed' = s
        /\ cache' = Memoize(cache, n, s, frame)
        /\ raw' = frame
        /\ SetTables(Pass(frame, sd, ed, rp, sg, th))
        /\ UNCHANGED now

\* The state after the first run of a session: every widget at its default
\* (the slider at position 1), the seed absent from the session state.
Init ==
    LET s == SessionSeed(FALSE, 0, FALSE, 0)
        frame == gen_data(1, s, Epoch)
        o == Pass(frame, DateOf(Epoch) - DefaultRangeDays, DateOf(Epoch),
                  Range(all_reps), Range(all_stages), ThDefault)
    IN  /\ now = Epoch
        /\ seed = s
        /\ clicked = FALSE
        /\ n_deals = 1
        /\ start_date = DateOf(Epoch) - DefaultRangeDays
        /\ end_date = DateOf(Epoch)
        /\ reps = Range(all_reps)
        /\ stages = Range(all_stages)
        /\ stalled_th = ThDefault
        /\ cache = Memoize(<<>>, 1, s, frame)
        /\ raw = frame
        /\ err = o.err
        /\ df = o.df
        /\ total_deals = o.total
        /\ win_rate = o.win_rate
        /\ avg_val = o.avg_val
        /\ med_time = o.med_time
        /\ status_counts = o.status_counts
        /\ funnel_df = o.funnel_df
        /\ rep_counts = o.rep_counts
        /\ avg_time = o.avg_time
        /\ ts = o.ts
        /\ stalled = o.stalled

\* ------------------------------------------------- the interactions
ChangeDeals ==
    \E n \in DealChoices \ {n_deals} :
        Rerun(n, start_date, end_date, reps, stages, stalled_th, FALSE, seed)

ChangeStartDate ==
    \E d \in DateChoices \ {start_date} :
        Rerun(n_deals, d, end_date, reps, stages, stalled_th, FALSE, seed)

ChangeEndDate ==
    \E d \in DateChoices \ {end_date} :
        Rerun(n_deals, start_date, d, reps, stages, stalled_th, FALSE, seed)

ChangeReps ==
    \E rp \in RepChoices \ {reps} :
        Rerun(n_deals, start_date, end_date, rp, stages, stalled_th, FALSE, seed)

ChangeStages ==
    \E sg \in StageChoices \ {stages} :
        Rerun(n_deals, start_date, end_date, reps, sg, stalled_th, FALSE, seed)

ChangeThreshold ==
    \E th \in ThChoices \ {stalled_th} :
        Rerun(n_deals, start_date, end_date, reps, stages, th, FALSE, seed)

ClickRegenerate ==
    \E drawn \in RegenSeeds :
        Rerun(n_deals, start_date, end_date, reps, stages, stalled_th, TRUE, drawn)

\* a rerun that no widget change causes (the "Rerun" command of the page)
RerunScript ==
    Rerun(n_deals, start_date, end_date, reps, stages, stalled_th, FALSE, seed)

\* the wall clock advances between two runs
Tick ==
    /\ now < Epoch + MaxTick
    /\ now' = now + 1
    /\ UNCHANGED <<seed, clicked, widgets, cache, raw, tables>>

Next ==
    \/ ChangeDeals
    \/ ChangeStartDate
    \/ ChangeEndDate
    \/ ChangeReps
    \/ ChangeStages
    \/ ChangeThreshold
    \/ ClickRegenerate
    \/ RerunScript
    \/ Tick

Spec == Init /\ [][Next]_vars

\* ------------------------------------------------- the core called directly
\* gen_data's body and the pass, applied to arguments drawn from bounded sets:
\* what every miss of the memo executes, in this process or in a later one.
CountArgs == -1..MaxDeals
SeedArgs == {InitialSeed, RandintLo, RandintLo + 1, RandintHi - 1, RandintHi}
DateArgs == {Today - DefaultRangeDays, Today - (DefaultRangeDays \div 2), Today}
RepArgs == {Range(all_reps), {all_reps[1], all_reps[2]}, {}}
StageArgs == {Range(all_stages),
              {all_stages[i] : i \in 1..4},
              {all_stages[5], all_stages[6]}}
ThArgs == {ThMin, ThDefault, ThMax}

\* One evaluation of the pass on a frame, outside any session.
Evaluate(n, s, frame, sd, ed, rp, sg, th) ==
    /\ n_deals' = n
    /\ seed' = s
    /\ start_date' = sd
    /\ end_date' = ed
    /\ reps' = rp
    /\ stages' = sg
    /\ stalled_th' = th
    /\ raw' = frame
    /\ SetTables(Pass(frame, sd, ed, rp, sg, th))
    /\ UNCHANGED <<now, clicked, cache>>

\* gen_data's body runs, and the pass runs on what it returns
CallGenData ==
    \E n \in CountArgs, s \in SeedArgs :
        Evaluate(n, s, gen_data(n, s, now), start_date, end_date, reps, stages, stalled_th)

\* the pass runs again on the same frame with another date range
CallWithDates ==
    \E sd \in DateArgs, ed \in DateArgs :
        Evaluate(n_deals, seed, raw, sd, ed, reps, stages, stalled_th)

\* ... with other allowed reps and stages
CallWithSets ==
    \E rp \in RepArgs, sg \in StageArgs :
        Evaluate(n_deals, seed, raw, start_date, end_date, rp, sg, stalled_th)

\* ... with another threshold
CallWithThreshold ==
    \E th \in ThArgs :
        Evaluate(n_deals, seed, raw, start_date, end_date, reps, stages, th)

CoreNext == CallGenData \/ CallWithDates \/ CallWithSets \/ CallWithThreshold \/ Tick

CoreSpec == Init /\ [][CoreNext]_vars

\* ============================================================ properties
IsClosed(stage) == stage \in {"Closed Won", "Closed Lost"}
RowsOf(frame) == 1..Len(frame.rows)

\* C1. gen_data is deterministic in (n, seed): a call with the arguments of
\* the previous call returns the frame the previous call returned, whatever
\* the time between the two.
C1_GenDataDeterministic ==
    [][(n_deals' = n_deals /\ seed' = seed) => raw' = raw]_vars

\* C2. Every deal gen_data returns has time_in_stage an integer >= 1, updated
\* exactly time_in_stage days after created, and the status its stage fixes:
\* Won iff "Closed Won", Lost iff "Closed Lost", Open for the four other stages.
C2_GeneratedDealsWellFormed ==
    \A i \in RowsOf(raw) :
        LET r == raw.rows[i]
        IN  /\ r.time_in_stage \in Int
            /\ r.time_in_stage >= 1
            /\ r.updated = r.created + r.time_in_stage * TicksPerDay
            /\ r.updated >= r.created
            /\ r.status = "Won" <=> r.stage = "Closed Won"
            /\ r.status = "Lost" <=> r.stage = "Closed Lost"
            /\ r.stage \in {all_stages[k] : k \in 1..4} => r.status = "Open"

C2_Witness ==
    /\ \E i \in RowsOf(raw) : raw.rows[i].status = "Won"
    /\ \E i \in RowsOf(raw) : raw.rows[i].status = "Open"

\* C3. The memo is transparent: the frame a run of the script uses is the one
\* an uncached gen_data(n_deals, seed) would return at the time of that run,
\* and a change of the filters alone leaves the frame as it was.
C3_MemoTransparent ==
    [][/\ now' = now => raw' = gen_data(n_deals', seed', now')
       /\ (n_deals' = n_deals /\ seed' = seed) => raw' = raw]_vars

\* C4. win_rate is won / max(1, total) * 100: its divisor is never zero, it
\* lies in [0, 100], and it is 0 for an empty filtered sequence.
C4_WinRateInRange ==
    err = "none" =>
        LET won == Cardinality({i \in RowsOf(df) : df.rows[i].status = "Won"})
            total == Len(df.rows)
        IN  /\ win_rate.den >= 1
            /\ win_rate.num * (IF total = 0 THEN 1 ELSE total) = won * 100 * win_rate.den
            /\ 0 <= win_rate.num
            /\ win_rate.num <= 100 * win_rate.den
            /\ total = 0 => win_rate.num = 0

C4_Witness ==
    err = "none" /\ raw.rows # <<>> /\ df.rows = <<>> /\ win_rate.num = 0

\* C5. The open-stage funnel and the average-time table hold one row per stage
\* of all_stages, in that order; a funnel row counts the Open deals of its
\* stage, and the average-time row of a stage without deals holds 0.
C5_OneRowPerStage ==
    err = "none" =>
        /\ Len(funnel_df) = Len(all_stages)
        /\ Len(avg_time) = Len(all_stages)
        /\ \A k \in 1..Len(all_stages) :
            LET inStage == {i \in RowsOf(df) : df.rows[i].stage = all_stages[k]}
            IN  /\ funnel_df[k].stage = all_stages[k]
                /\ funnel_df[k].count =
                       Cardinality({i \in inStage : df.rows[i].status = "Open"})
                /\ avg_time[k].stage = all_stages[k]
                /\ inStage = {} => avg_time[k].avg_days.num = 0

C5_Witness ==
    /\ err = "none"
    /\ \E k \in 1..Len(all_stages) : funnel_df[k].count > 0
    /\ \E i \in RowsOf(raw) :
          \A j \in RowsOf(df) : df.rows[j].stage # raw.rows[i].stage

\* C6. Filtering is idempotent: the filter of the pass, applied to the
\* filtered frame with the same date range, reps and stages, returns it.
C6_FilterIdempotent ==
    err = "none" => FilterDf(df, start_date, end_date, reps, stages) = df

C6_Witness ==
    err = "none" /\ df.rows # <<>> /\ Len(df.rows) < Len(raw.rows)

\* C7. The stalled table holds exactly the deals of the filtered frame that
\* are Open and have time_in_stage > stalled_th, in their original order.
C7_StalledExact ==
    err = "none" =>
        LET q == {i \in RowsOf(df) :
                    df.rows[i].status = "Open" /\ df.rows[i].time_in_stage > stalled_th}
        IN  /\ Len(stalled) = Cardinality(q)
            /\ \A k \in 1..Len(stalled) :
                  /\ ~IsClosed(stalled[k].stage)
                  /\ stalled[k].time_in_stage > stalled_th
                  /\ \E i \in q :
                        /\ Cardinality({j \in q : j < i}) = k - 1
                        /\ stalled[k] = StalledColumns(df.rows[i])

C7_Witness ==
    /\ err = "none"
    /\ stalled # <<>>
    /\ \E i \in RowsOf(df) :
          df.rows[i].status = "Open" /\ df.rows[i].time_in_stage <= stalled_th

\* C8. An empty deal sequence, from a count of 0 or from filters that exclude
\* every deal, is no error: the pass completes and every table is zero or empty.
C8_EmptyIsNoError ==
    (n_deals >= 0 /\ (raw.rows = <<>> \/ df.rows = <<>>)) =>
        /\ err = "none"
        /\ total_deals = 0
        /\ win_rate.num = 0
        /\ avg_val.num = 0
        /\ med_time.num = 0
        /\ DOMAIN status_counts = {}
        /\ DOMAIN rep_counts = {}
        /\ ts = <<>>
        /\ stalled = <<>>
        /\ Len(funnel_df) = Len(all_stages)
        /\ Len(avg_time) = Len(all_stages)
        /\ \A k \in 1..Len(all_stages) :
              funnel_df[k].count = 0 /\ avg_time[k].avg_days.num = 0

\* C9. Invalid parameters are rejected: a negative count, or a start date
\* after the end date, ends in a validation failure and produces no frame.
C9_InvalidRejected ==
    (n_deals < 0 \/ start_date > end_date) => err = "ValidationError"

\* C10. The seed is 42 at the start of a session, only a click on "Regenerate
\* Data" changes it, and the click puts an integer of 0..1000000 in place
\* before the frame of that run is generated.
C10_SeedChangesOnlyOnRegenerate ==
    /\ seed = InitialSeed
    /\ [][/\ ~clicked' => seed' = seed
          /\ clicked' =>
                /\ seed' \in RandintLo..RandintHi
                /\ raw' \in {gen_data(n_deals', seed', t) : t \in Epoch..now'}]_vars

C10_Witness ==
    ~clicked /\ seed # InitialSeed /\ widgets # <<1, DateOf(Epoch) - DefaultRangeDays,
        DateOf(Epoch), Range(all_reps), Range(all_stages), ThDefault>>
====
